---- MODULE Spec2Model ----
(***************************************************************************)
(* String Analyzer Service (FastAPI + SQLAlchemy): the analyzer, the       *)
(* natural-language query parser, the filter query and the five request    *)
(* handlers, modelled from app/analyzer.py, app/parser.py, app/crud.py,    *)
(* app/schemas.py, app/models.py and app/main.py.                          *)
(*                                                                         *)
(* A Python str is a sequence of one-character strings, so that lower(),   *)
(* strip(), split(), the `in` operator and the regular expressions are     *)
(* computed character by character.  A Python dict is a function whose     *)
(* domain is the set of keys that are present.                             *)
(***************************************************************************)
EXTENDS Integers, Sequences, FiniteSets, Bags, TLC

VARIABLES store, now, request, parsed, applied, response

vars == <<store, now, request, parsed, applied, response>>

(***************************************************************************)
(* Bounds of the model.                                                    *)
(***************************************************************************)
\* Longest sentence, in phrases of Phrases, given to the parser.
MaxPhrases == 2
\* Number of inserts the database clock is followed for.
MaxClock == 3
\* Most query parameters given in one GET /strings request.
MaxParams == 2

(***************************************************************************)
(* Python values.                                                          *)
(***************************************************************************)
\* Python's None, where a dict (or a row) is the other possible value.
None == [py |-> "None"]

\* The empty dict {}.
EmptyDict == [k \in {} |-> TRUE]

\* d[k] = v
SetItem(d, k, v) == [x \in (DOMAIN d) \cup {k} |-> IF x = k THEN v ELSE d[x]]

(***************************************************************************)
(* Characters and the str methods the program uses.                        *)
(***************************************************************************)
\* The characters of the model's alphabet that str.strip(), str.split() and
\* the pattern \s take as whitespace.
Whitespace == {" ", "\t"}

\* The characters of the model's alphabet that the pattern \d matches, with
\* the value int() gives each.
DigitValue ==
    "0" :> 0 @@ "1" :> 1 @@ "2" :> 2 @@ "3" :> 3 @@ "4" :> 4 @@
    "5" :> 5 @@ "6" :> 6 @@ "7" :> 7 @@ "8" :> 8 @@ "9" :> 9

Digits == DOMAIN DigitValue

\* str.lower() on one character.
ToLower ==
    "A" :> "a" @@ "B" :> "b" @@ "C" :> "c" @@ "D" :> "d" @@ "E" :> "e" @@
    "F" :> "f" @@ "G" :> "g" @@ "H" :> "h" @@ "I" :> "i" @@ "J" :> "j" @@
    "K" :> "k" @@ "L" :> "l" @@ "M" :> "m" @@ "N" :> "n" @@ "O" :> "o" @@
    "P" :> "p" @@ "Q" :> "q" @@ "R" :> "r" @@ "S" :> "s" @@ "T" :> "t" @@
    "U" :> "u" @@ "V" :> "v" @@ "W" :> "w" @@ "X" :> "x" @@ "Y" :> "y" @@
    "Z" :> "z"

\* The character class [a-z0-9].
LowerAlnum == {ToLower[c] : c \in DOMAIN ToLower} \cup Digits

\* The character class ["\'].
Quotes == {"\"", "'"}

\* s.lower()
lower(s) == [i \in 1..Len(s) |-> IF s[i] \in DOMAIN ToLower THEN ToLower[s[i]] ELSE s[i]]

\* s.strip(): s without its leading and trailing whitespace.
strip(s) ==
    LET inked == {i \in 1..Len(s) : s[i] \notin Whitespace}
    IN  IF inked = {} THEN <<>>
        ELSE LET first == CHOOSE i \in inked : \A j \in inked : i <= j
                 last  == CHOOSE i \in inked : \A j \in inked : j <= i
             IN  SubSeq(s, first, last)

\* s[::-1]
Reverse(s) == [i \in 1..Len(s) |-> s[Len(s) + 1 - i]]

\* len(s.split()): the number of maximal runs of non-whitespace characters.
SplitCount(s) ==
    Cardinality({i \in 1..Len(s) :
        /\ s[i] \notin Whitespace
        /\ (i = 1 \/ s[i - 1] \in Whitespace)})

\* int(digits): base-10 value of a non-empty run of digits.
RECURSIVE int(_)
int(digits) ==
    IF digits = <<>> THEN 0
    ELSE 10 * int(SubSeq(digits, 1, Len(digits) - 1)) + DigitValue[digits[Len(digits)]]

\* The literal lit occurs in s at index i.
StartsWithAt(s, i, lit) ==
    /\ i >= 1
    /\ i + Len(lit) - 1 <= Len(s)
    /\ \A k \in 1..Len(lit) : s[i + k - 1] = lit[k]

\* lit in s
Contains(s, lit) == \E i \in 1..(Len(s) + 1) : StartsWithAt(s, i, lit)

(***************************************************************************)
(* The regular expressions of app/parser.py, as re.search evaluates them:  *)
(* the leftmost index at which the pattern matches, every quantifier       *)
(* greedy.  In these patterns a run \s+ or \d+ is always followed by a     *)
(* character outside its class, so the greedy run is the only one that     *)
(* can match.                                                              *)
(***************************************************************************)
\* Index after the longest run of characters of class cls that starts at i.
SpanEnd(s, i, cls) ==
    CHOOSE j \in i..(Len(s) + 1) :
        /\ \A k \in i..(j - 1) : s[k] \in cls
        /\ (j = Len(s) + 1 \/ s[j] \notin cls)

\* A re.Match: where it starts and the text of the capture group the parser
\* reads; NoMatch is re.search's None.
NoMatch == [start |-> 0, group |-> <<>>]

\* Smallest element of a non-empty set of indices.
Leftmost(S) == CHOOSE i \in S : \A j \in S : i <= j

\* \s+ then (\d+) from index p: the digits captured, or <<>>.
SpacedNumberAt(s, p) ==
    LET n == SpanEnd(s, p, Whitespace)
        e == SpanEnd(s, n, Digits)
    IN  IF n > p /\ e > n THEN SubSeq(s, n, e - 1) ELSE <<>>

\* (w1)\s+w2\s+(\d+) at index i, w1 one of the alternatives firsts: the
\* digits captured, or <<>>.
PhraseNumberAt(s, i, firsts, w2) ==
    IF \E w1 \in firsts : StartsWithAt(s, i, w1)
    THEN LET w1 == CHOOSE w \in firsts : StartsWithAt(s, i, w)
             p  == i + Len(w1)
             k  == SpanEnd(s, p, Whitespace)
         IN  IF k > p /\ StartsWithAt(s, k, w2)
             THEN SpacedNumberAt(s, k + Len(w2))
             ELSE <<>>
    ELSE <<>>

\* re.search of (w1)\s+w2\s+(\d+).
SearchPhraseNumber(s, firsts, w2) ==
    LET hits == {i \in 1..Len(s) : PhraseNumberAt(s, i, firsts, w2) # <<>>}
    IN  IF hits = {} THEN NoMatch
        ELSE [start |-> Leftmost(hits),
              group |-> PhraseNumberAt(s, Leftmost(hits), firsts, w2)]

\* (\d+)\s+word(s)? at index i: the digits captured, or <<>>.
WordCountAt(s, i) ==
    IF s[i] \in Digits
    THEN LET j == SpanEnd(s, i, Digits)
             k == SpanEnd(s, j, Whitespace)
         IN  IF k > j /\ StartsWithAt(s, k, <<"w", "o", "r", "d">>)
             THEN SubSeq(s, i, j - 1)
             ELSE <<>>
    ELSE <<>>

\* re.search(r'(\d+)\s+word(s)?', query); group is group(1).
word_count_match(s) ==
    LET hits == {i \in 1..Len(s) : WordCountAt(s, i) # <<>>}
    IN  IF hits = {} THEN NoMatch
        ELSE [start |-> Leftmost(hits), group |-> WordCountAt(s, Leftmost(hits))]

\* re.search(r'(longer|more)\s+than\s+(\d+)', query); group is group(2).
min_length_match(s) == SearchPhraseNumber(s, {<<"l", "o", "n", "g", "e", "r">>, <<"m", "o", "r", "e">>}, <<"t", "h", "a", "n">>)

\* re.search(r'at\s+least\s+(\d+)', query); group is group(1).
min_length_at_least_match(s) == SearchPhraseNumber(s, {<<"a", "t">>}, <<"l", "e", "a", "s", "t">>)

\* re.search(r'(shorter|less)\s+than\s+(\d+)', query); group is group(2).
max_length_match(s) == SearchPhraseNumber(s, {<<"s", "h", "o", "r", "t", "e", "r">>, <<"l", "e", "s", "s">>}, <<"t", "h", "a", "n">>)

\* re.search(r'at\s+most\s+(\d+)', query); group is group(1).
max_length_at_most_match(s) == SearchPhraseNumber(s, {<<"a", "t">>}, <<"m", "o", "s", "t">>)

\* ["\']?([a-z0-9]) at index r: the character captured, or <<>>.  The quote
\* is tried first; without it the character at r must itself be [a-z0-9].
QuotedCharAt(s, r) ==
    IF r <= Len(s) /\ s[r] \in Quotes /\ r + 1 <= Len(s) /\ s[r + 1] \in LowerAlnum
    THEN <<s[r + 1]>>
    ELSE IF r <= Len(s) /\ s[r] \in LowerAlnum
         THEN <<s[r]>>
         ELSE <<>>

\* (the\s+letter\s+)? at index k: the index after "the letter ", or 0 when
\* the optional group cannot match there.
TheLetterEnd(s, k) ==
    IF StartsWithAt(s, k, <<"t", "h", "e">>)
    THEN LET a == k + 3
             b == SpanEnd(s, a, Whitespace)
         IN  IF b > a /\ StartsWithAt(s, b, <<"l", "e", "t", "t", "e", "r">>)
             THEN LET c == b + 6
                      d == SpanEnd(s, c, Whitespace)
                  IN  IF d > c THEN d ELSE 0
             ELSE 0
    ELSE 0

\* contain(s|ing)\s+(the\s+letter\s+)?["\']?([a-z0-9])["\']? at index i: the
\* character captured, or <<>>.  The optional group is taken when the rest
\* then matches, and skipped otherwise (backtracking).
ContainsAt(s, i) ==
    IF StartsWithAt(s, i, <<"c", "o", "n", "t", "a", "i", "n">>)
    THEN LET p == IF StartsWithAt(s, i + 7, <<"s">>) THEN i + 8
                  ELSE IF StartsWithAt(s, i + 7, <<"i", "n", "g">>) THEN i + 10
                  ELSE 0
         IN  IF p = 0 THEN <<>>
             ELSE LET k == SpanEnd(s, p, Whitespace)
                      t == TheLetterEnd(s, k)
                  IN  IF k = p THEN <<>>
                      ELSE IF t # 0 /\ QuotedCharAt(s, t) # <<>>
                           THEN QuotedCharAt(s, t)
                           ELSE QuotedCharAt(s, k)
    ELSE <<>>

\* re.search(r'contain(s|ing)\s+(the\s+letter\s+)?["\']?([a-z0-9])["\']?',
\* query); group is group(3).
contains_match(s) ==
    LET hits == {i \in 1..Len(s) : ContainsAt(s, i) # <<>>}
    IN  IF hits = {} THEN NoMatch
        ELSE [start |-> Leftmost(hits), group |-> ContainsAt(s, Leftmost(hits))]

(***************************************************************************)
(* app/parser.py: parse_natural_language_query.  Each operator below is    *)
(* one numbered block of the function; q is the lower-cased, stripped      *)
(* query and f the filters dict built so far.                              *)
(***************************************************************************)
\* 1. Check for palindrome.
palindrome_rule(q, f) ==
    IF Contains(q, <<"p", "a", "l", "i", "n", "d", "r", "o", "m", "i", "c">>) \/ Contains(q, <<"p", "a", "l", "i", "n", "d", "r", "o", "m", "e">>)
    THEN SetItem(f, "is_palindrome", TRUE)
    ELSE f

\* 2. Check for word count: the numeric pattern, elif "single word".
word_count_rule(q, f) ==
    IF word_count_match(q) # NoMatch
    THEN SetItem(f, "word_count", int(word_count_match(q).group))
    ELSE IF Contains(q, <<"s", "i", "n", "g", "l", "e", " ", "w", "o", "r", "d">>)
         THEN SetItem(f, "word_count", 1)
         ELSE f

\* The two min_length blocks in the other order.
min_length_rules_swapped(q, f) ==
    LET g == IF min_length_at_least_match(q) # NoMatch
             THEN SetItem(f, "min_length", int(min_length_at_least_match(q).group))
             ELSE f
    IN  IF min_length_match(q) # NoMatch
        THEN SetItem(g, "min_length", int(min_length_match(q).group) + 1)
        ELSE g

\* 3. Check for length (min_length): "longer than 10" -> 11, then
\* "at least 10" -> 10.
min_length_rules(q, f) ==
    LET g == IF min_length_match(q) # NoMatch
             THEN SetItem(f, "min_length", int(min_length_match(q).group) + 1)
             ELSE f
    IN  IF min_length_at_least_match(q) # NoMatch
        THEN SetItem(g, "min_length", int(min_length_at_least_match(q).group))
        ELSE g

\* 4. Check for length (max_length): "shorter than 10" -> 9, then
\* "at most 10" -> 10.
max_length_rules(q, f) ==
    LET g == IF max_length_match(q) # NoMatch
             THEN SetItem(f, "max_length", int(max_length_match(q).group) - 1)
             ELSE f
    IN  IF max_length_at_most_match(q) # NoMatch
        THEN SetItem(g, "max_length", int(max_length_at_most_match(q).group))
        ELSE g

\* The "first vowel" heuristic applied only when the pattern did not match.
contains_character_rules_no_override(q, f) ==
    IF contains_match(q) # NoMatch
    THEN SetItem(f, "contains_character", contains_match(q).group)
    ELSE IF Contains(q, <<"f", "i", "r", "s", "t", " ", "v", "o", "w", "e", "l">>)
         THEN SetItem(f, "contains_character", <<"a">>)
         ELSE f

\* 5. Check for contains_character, then the heuristic for "first vowel".
contains_character_rules(q, f) ==
    LET g == IF contains_match(q) # NoMatch
             THEN SetItem(f, "contains_character", contains_match(q).group)
             ELSE f
    IN  IF Contains(q, <<"f", "i", "r", "s", "t", " ", "v", "o", "w", "e", "l">>)
        THEN SetItem(g, "contains_character", <<"a">>)
        ELSE g

\* None whenever no filter holds a truthy value (0 is falsy).
filters_or_none_by_truthy_values(f) ==
    IF \A k \in DOMAIN f : k \in {"word_count", "min_length", "max_length"} /\ f[k] = 0
    THEN None
    ELSE f

\* `if not filters: return None`, else `return filters`.
filters_or_none(f) == IF DOMAIN f = {} THEN None ELSE f

\* parse_natural_language_query(query): the filters dict, or None.
parse_natural_language_query(query) ==
    LET q == strip(lower(query))
    IN  filters_or_none(
            contains_character_rules(q,
                max_length_rules(q,
                    min_length_rules(q,
                        word_count_rule(q,
                            palindrome_rule(q, EmptyDict))))))

(***************************************************************************)
(* Sentences given to the parser: up to MaxPhrases phrases joined by one   *)
(* space.  The empty phrase gives leading, trailing and doubled spaces.    *)
(***************************************************************************)
Phrases == {
    <<>>,
    <<"h", "e", "l", "l", "o">>,
    <<"P", "a", "l", "i", "n", "d", "r", "o", "m", "i", "c">>,
    <<"s", "i", "n", "g", "l", "e", " ", "w", "o", "r", "d">>,
    <<"2", " ", "w", "o", "r", "d", "s">>,
    <<"l", "o", "n", "g", "e", "r", " ", "t", "h", "a", "n", " ", "1", "0">>,
    <<"m", "o", "r", "e", " ", "t", "h", "a", "n">>,
    <<"A", "T", " ", " ", "L", "E", "A", "S", "T", "\t", "0", "3">>,
    <<"s", "h", "o", "r", "t", "e", "r", " ", "t", "h", "a", "n", " ", "3">>,
    <<"l", "e", "s", "s", " ", "t", "h", "a", "n", " ", "0">>,
    <<"a", "t", " ", "m", "o", "s", "t", " ", "0">>,
    <<"c", "o", "n", "t", "a", "i", "n", "i", "n", "g", " ", "t", "h", "e", " ", "l", "e", "t", "t", "e", "r", " ", "z">>,
    <<"c", "o", "n", "t", "a", "i", "n", "s", " ", "'", "b", "'">>,
    <<"c", "o", "n", "t", "a", "i", "n", "i", "n", "g", " ", "t", "h", "e">>,
    <<"f", "i", "r", "s", "t", " ", "v", "o", "w", "e", "l">> }

\* " ".join(ps)
RECURSIVE Join(_)
Join(ps) ==
    IF ps = <<>> THEN <<>>
    ELSE IF Len(ps) = 1 THEN ps[1]
    ELSE ps[1] \o <<" ">> \o Join(Tail(ps))

Sentences == {Join(ps) : ps \in UNION {[1..n -> Phrases] : n \in 0..MaxPhrases}}

(***************************************************************************)
(* app/analyzer.py                                                         *)
(***************************************************************************)
\* Strings a client posts, fetches and deletes.  The empty one is refused by
\* the StringCreate schema.
Values == {<<>>, <<"a">>, <<"A", "b", "a">>, <<"b", " ", "z">>}

\* hashlib.sha256(input_string.encode('utf-8')).hexdigest() on Values.
sha256_hexdigest(s) ==
    CASE s = <<>>    -> "e3b0c44298fc1c149afbf4c8996fb92427ae41e4649b934ca495991b7852b855"
      [] s = <<"a">>   -> "ca978112ca1bbdcafac231b39a23dc4da786eff8147c4e72b9807785afee48bb"
      [] s = <<"A", "b", "a">> -> "770e56386d2f3e140ffba0032342511c1c3cd9fed9312f62ddedf3a4a8749b1f"
      [] s = <<"b", " ", "z">> -> "158847bf245be59b2f4453b832c7fd25b180ff36f5c3d939f57c614b9a1a9b06"

\* dict(Counter(input_string)): each character of s with its number of
\* occurrences.
Counter(s) ==
    [c \in {s[i] : i \in 1..Len(s)} |-> Cardinality({i \in 1..Len(s) : s[i] = c})]

\* analyze_string(input_string)
analyze_string(input_string) ==
    [length                  |-> Len(input_string),
     is_palindrome           |-> lower(input_string) = Reverse(lower(input_string)),
     unique_characters       |-> Cardinality({input_string[i] : i \in 1..Len(input_string)}),
     word_count              |-> SplitCount(input_string),
     sha256_hash             |-> sha256_hexdigest(input_string),
     character_frequency_map |-> Counter(input_string)]

(***************************************************************************)
(* app/models.py and app/crud.py.  The table analyzed_strings is a bag of  *)
(* rows: sha256_hash is its primary key and value carries a unique index,  *)
(* both enforced by the database when a row is inserted.                   *)
(***************************************************************************)
\* models.AnalyzedString(...) as inserted; created_at is the server default
\* func.now() at the insert.
AnalyzedString(value, properties, created_at) ==
    [sha256_hash             |-> properties.sha256_hash,
     value                   |-> value,
     length                  |-> properties.length,
     is_palindrome           |-> properties.is_palindrome,
     unique_characters       |-> properties.unique_characters,
     word_count              |-> properties.word_count,
     character_frequency_map |-> properties.character_frequency_map,
     created_at              |-> created_at]

\* The commit raises IntegrityError: the primary key or the unique index on
\* value already holds the new row's key.
IntegrityError(db, row) ==
    \E r \in BagToSet(db) : r.sha256_hash = row.sha256_hash \/ r.value = row.value

\* create_analyzed_string that writes the row whatever the table holds.
create_analyzed_string_unchecked(db, value, clock) ==
    LET db_string == AnalyzedString(value, analyze_string(value), clock)
    IN  [result |-> db_string, db |-> db (+) SetToBag({db_string})]

\* create_analyzed_string that overwrites the stored row of the same value
\* (session.merge in place of session.add).
create_analyzed_string_merge(db, value, clock) ==
    LET db_string == AnalyzedString(value, analyze_string(value), clock)
        others    == {r \in BagToSet(db) : r.sha256_hash # db_string.sha256_hash}
    IN  [result |-> db_string,
         db     |-> [r \in others |-> db[r]] (+) SetToBag({db_string})]

\* create_analyzed_string(db, string_data): the new row and the table after
\* the commit, or None and the table as it was after the rollback.
create_analyzed_string(db, value, clock) ==
    LET db_string == AnalyzedString(value, analyze_string(value), clock)
    IN  IF IntegrityError(db, db_string)
        THEN [result |-> None, db |-> db]
        ELSE [result |-> db_string, db |-> db (+) SetToBag({db_string})]

\* Rows the select of get_string_by_value finds.
RowsByValue(db, string_value) == [r \in {x \in BagToSet(db) : x.value = string_value} |-> db[r]]

\* get_string_by_value(db, string_value): scalar_one_or_none() of the select;
\* more than one row raises MultipleResultsFound.
get_string_by_value(db, string_value) ==
    LET found == RowsByValue(db, string_value)
    IN  IF BagCardinality(found) = 0 THEN None
        ELSE IF BagCardinality(found) = 1 THEN CHOOSE r \in BagToSet(found) : TRUE
        ELSE [py |-> "MultipleResultsFound"]

\* delete_string_by_value(db, string_value): whether a row was deleted, and
\* the table afterwards.
delete_string_by_value(db, string_value) ==
    LET db_string == get_string_by_value(db, string_value)
    IN  IF db_string # None
        THEN [result |-> TRUE, db |-> db (-) SetToBag({db_string})]
        ELSE [result |-> FALSE, db |-> db]

\* character_frequency_map.has_key(char): char is a key of the JSONB object.
\* Its keys are single characters.
has_key(character_frequency_map, char) ==
    Len(char) = 1 /\ char[1] \in DOMAIN character_frequency_map

\* get_filtered_strings whose max_length clause is length < max_length.
get_filtered_strings_strict_max(db, filters) ==
    LET q0 == BagToSet(db)
        q1 == IF "is_palindrome" \in DOMAIN filters
              THEN {r \in q0 : r.is_palindrome = filters["is_palindrome"]} ELSE q0
        q2 == IF "min_length" \in DOMAIN filters
              THEN {r \in q1 : r.length >= filters["min_length"]} ELSE q1
        q3 == IF "max_length" \in DOMAIN filters
              THEN {r \in q2 : r.length < filters["max_length"]} ELSE q2
        q4 == IF "word_count" \in DOMAIN filters
              THEN {r \in q3 : r.word_count = filters["word_count"]} ELSE q3
        q5 == IF "contains_character" \in DOMAIN filters
              THEN {r \in q4 : has_key(r.character_frequency_map, filters["contains_character"])}
              ELSE q4
    IN  [r \in q5 |-> db[r]]

\* get_filtered_strings whose query ends in .offset(1) over created_at order.
get_filtered_strings_offset_one(db, filters) ==
    LET q0 == BagToSet(db)
        q1 == IF "is_palindrome" \in DOMAIN filters
              THEN {r \in q0 : r.is_palindrome = filters["is_palindrome"]} ELSE q0
        q2 == IF "min_length" \in DOMAIN filters
              THEN {r \in q1 : r.length >= filters["min_length"]} ELSE q1
        q3 == IF "max_length" \in DOMAIN filters
              THEN {r \in q2 : r.length <= filters["max_length"]} ELSE q2
        q4 == IF "word_count" \in DOMAIN filters
              THEN {r \in q3 : r.word_count = filters["word_count"]} ELSE q3
        q5 == IF "contains_character" \in DOMAIN filters
              THEN {r \in q4 : has_key(r.character_frequency_map, filters["contains_character"])}
              ELSE q4
        q6 == {r \in q5 : \E o \in q5 : o.created_at < r.created_at}
    IN  [r \in q6 |-> db[r]]

\* get_filtered_strings(db, filters): the rows the select returns, one where
\* clause per key of filters whose value is not None.  The values of filters
\* are never None: get_all_strings drops the None ones and the parser sets
\* none.
get_filtered_strings(db, filters) ==
    LET q0 == BagToSet(db)
        q1 == IF "is_palindrome" \in DOMAIN filters
              THEN {r \in q0 : r.is_palindrome = filters["is_palindrome"]} ELSE q0
        q2 == IF "min_length" \in DOMAIN filters
              THEN {r \in q1 : r.length >= filters["min_length"]} ELSE q1
        q3 == IF "max_length" \in DOMAIN filters
              THEN {r \in q2 : r.length <= filters["max_length"]} ELSE q2
        q4 == IF "word_count" \in DOMAIN filters
              THEN {r \in q3 : r.word_count = filters["word_count"]} ELSE q3
        q5 == IF "contains_character" \in DOMAIN filters
              THEN {r \in q4 : has_key(r.character_frequency_map, filters["contains_character"])}
              ELSE q4
    IN  [r \in q5 |-> db[r]]

(***************************************************************************)
(* app/schemas.py                                                          *)
(***************************************************************************)
\* schemas.StringResponse(id=..., value=..., properties=schemas.
\* StringProperties(...), created_at=...) built from a row.
StringResponse(db_string) ==
    [id         |-> db_string.sha256_hash,
     value      |-> db_string.value,
     properties |-> [length                  |-> db_string.length,
                     is_palindrome           |-> db_string.is_palindrome,
                     unique_characters       |-> db_string.unique_characters,
                     word_count              |-> db_string.word_count,
                     sha256_hash             |-> db_string.sha256_hash,
                     character_frequency_map |-> db_string.character_frequency_map],
     created_at |-> db_string.created_at]

\* response_data: one StringResponse per row of strings_list.
response_data(strings_list) ==
    LET items == {StringResponse(r) : r \in BagToSet(strings_list)}
    IN  [x \in items |->
            BagCardinality([r \in {y \in BagToSet(strings_list) : StringResponse(y) = x}
                               |-> strings_list[r]])]

\* Fields of schemas.NLFilterParsed.
NLFilterParsedFields == {"word_count", "is_palindrome", "min_length", "contains_character"}

\* schemas.NLFilterParsed(**parsed_filters): a keyword that is no field of
\* the model is ignored; a field left at None is a key not in the domain.
NLFilterParsed(parsed_filters) ==
    [k \in (DOMAIN parsed_filters) \cap NLFilterParsedFields |-> parsed_filters[k]]

\* StringCreate: value is a str of min_length=1.
ValidStringCreate(value) == Len(value) >= 1

\* The Query(...) constraints of get_all_strings: ge=0 on min_length,
\* max_length and word_count, min_length=1 and max_length=1 on
\* contains_character.
ValidQuery(params) ==
    /\ \A k \in (DOMAIN params) \cap {"min_length", "max_length", "word_count"} : params[k] >= 0
    /\ "contains_character" \in DOMAIN params => Len(params["contains_character"]) = 1

(***************************************************************************)
(* app/main.py: the request handlers.  Each gives the HTTP response, the   *)
(* table afterwards, what the parser returned (parsed) and what            *)
(* crud.get_filtered_strings was called with (applied) in the request.     *)
(***************************************************************************)
\* No call of the parser, or of get_filtered_strings, in the request.
NotParsed == [py |-> "not parsed"]
NotCalled == [py |-> "not called"]

\* HTTPException(status_code, detail), and FastAPI's 422 for a request that
\* fails validation.
HTTPException(status_code, detail) == [status |-> status_code, body |-> [detail |-> detail]]
RequestValidationError == [status |-> 422, body |-> [detail |-> "validation error"]]

Outcome(resp, db, p, a) == [response |-> resp, db |-> db, parsed |-> p, applied |-> a]

\* get_strings_by_natural_language that filters with no constraint when the
\* parser returns None.
get_strings_by_natural_language_none_as_empty(db, query) ==
    LET parsed_filters == parse_natural_language_query(query)
        filters        == IF parsed_filters = None THEN EmptyDict ELSE parsed_filters
        strings_list   == get_filtered_strings(db, filters)
    IN  Outcome([status |-> 200,
                 body   |-> [data  |-> response_data(strings_list),
                             count |-> BagCardinality(response_data(strings_list)),
                             interpreted_query |->
                                 [original       |-> query,
                                  parsed_filters |-> NLFilterParsed(filters)]]],
                db, parsed_filters, filters)

\* get_strings_by_natural_language(query, db)
get_strings_by_natural_language(db, query) ==
    LET parsed_filters == parse_natural_language_query(query)
        strings_list   == get_filtered_strings(db, parsed_filters)
    IN  IF parsed_filters = None
        THEN Outcome(HTTPException(400, "Unable to parse natural language query."),
                     db, parsed_filters, NotCalled)
        ELSE Outcome([status |-> 200,
                      body   |-> [data  |-> response_data(strings_list),
                                  count |-> BagCardinality(response_data(strings_list)),
                                  interpreted_query |->
                                      [original       |-> query,
                                       parsed_filters |-> NLFilterParsed(parsed_filters)]]],
                     db, parsed_filters, parsed_filters)

\* create_string(string_data, db)
create_string(db, value, clock) ==
    LET created == create_analyzed_string(db, value, clock)
    IN  IF ~ValidStringCreate(value)
        THEN Outcome(RequestValidationError, db, NotParsed, NotCalled)
        ELSE IF created.result = None
        THEN Outcome(HTTPException(409, "String already exists in the system."),
                     created.db, NotParsed, NotCalled)
        ELSE Outcome([status |-> 201, body |-> StringResponse(created.result)],
                     created.db, NotParsed, NotCalled)

\* get_string(string_value, db)
get_string(db, string_value) ==
    LET db_string == get_string_by_value(db, string_value)
    IN  IF db_string = None
        THEN Outcome(HTTPException(404, "String does not exist in the system."),
                     db, NotParsed, NotCalled)
        ELSE IF db_string = [py |-> "MultipleResultsFound"]
        THEN Outcome(HTTPException(500, "Internal Server Error"), db, NotParsed, NotCalled)
        ELSE Outcome([status |-> 200, body |-> StringResponse(db_string)],
                     db, NotParsed, NotCalled)

\* get_all_strings(is_palindrome, min_length, max_length, word_count,
\* contains_character, db); params holds the query parameters that were
\* given, and active_filters is filters_applied without its None values.
get_all_strings(db, params) ==
    LET active_filters == [k \in DOMAIN params |-> params[k]]
        strings_list   == get_filtered_strings(db, active_filters)
    IN  IF ~ValidQuery(params)
        THEN Outcome(RequestValidationError, db, NotParsed, NotCalled)
        ELSE Outcome([status |-> 200,
                      body   |-> [data  |-> response_data(strings_list),
                                  count |-> BagCardinality(response_data(strings_list)),
                                  filters_applied |-> active_filters]],
                     db, NotParsed, active_filters)

\* delete_string(string_value, db)
delete_string(db, string_value) ==
    LET found   == get_string_by_value(db, string_value)
        deleted == delete_string_by_value(db, string_value)
    IN  IF found = [py |-> "MultipleResultsFound"]
        THEN Outcome(HTTPException(500, "Internal Server Error"), db, NotParsed, NotCalled)
        ELSE IF ~deleted.result
        THEN Outcome(HTTPException(404, "String does not exist in the system."),
                     deleted.db, NotParsed, NotCalled)
        ELSE Outcome([status |-> 204, body |-> None], deleted.db, NotParsed, NotCalled)

(***************************************************************************)
(* The service as a state machine: one action per endpoint.                *)
(***************************************************************************)
\* Sentences a client sends to /strings/filter-by-natural-language.
ServiceSentences == {
    <<"a", "l", "l", " ", "s", "i", "n", "g", "l", "e", " ", "w", "o", "r", "d", " ", "p", "a", "l", "i", "n", "d", "r", "o", "m", "i", "c", " ", "s", "t", "r", "i", "n", "g", "s">>,
    <<"s", "t", "r", "i", "n", "g", "s", " ", "l", "o", "n", "g", "e", "r", " ", "t", "h", "a", "n", " ", "1", "0", " ", "c", "h", "a", "r", "a", "c", "t", "e", "r", "s">>,
    <<"s", "t", "r", "i", "n", "g", "s", " ", "c", "o", "n", "t", "a", "i", "n", "i", "n", "g", " ", "t", "h", "e", " ", "l", "e", "t", "t", "e", "r", " ", "z">>,
    <<"p", "a", "l", "i", "n", "d", "r", "o", "m", "i", "c", " ", "s", "t", "r", "i", "n", "g", "s", " ", "t", "h", "a", "t", " ", "c", "o", "n", "t", "a", "i", "n", " ", "t", "h", "e", " ", "f", "i", "r", "s", "t", " ", "v", "o", "w", "e", "l">>,
    <<"h", "e", "l", "l", "o">>,
    <<"s", "t", "r", "i", "n", "g", "s", " ", "s", "h", "o", "r", "t", "e", "r", " ", "t", "h", "a", "n", " ", "3", " ", "c", "h", "a", "r", "a", "c", "t", "e", "r", "s">>,
    <<"s", "t", "r", "i", "n", "g", "s", " ", "s", "h", "o", "r", "t", "e", "r", " ", "t", "h", "a", "n", " ", "0", " ", "c", "h", "a", "r", "a", "c", "t", "e", "r", "s">>,
    <<"A", "t", " ", "l", "e", "a", "s", "t", " ", "2", " ", "w", "o", "r", "d", "s">> }

\* Values a client gives each query parameter of GET /strings.
ParamValues ==
    [is_palindrome      : {TRUE, FALSE},
     min_length         : {3},
     max_length         : {-1, 1},
     word_count         : {2},
     contains_character : {<<"A">>, <<"z", "z">>}]

\* Query strings of GET /strings: at most MaxParams of the five parameters
\* are given, the others are left out.
StructuredQueries ==
    {[k \in keys |-> full[k]] :
        full \in ParamValues,
        keys \in {K \in SUBSET (NLFilterParsedFields \cup {"max_length"}) : Cardinality(K) <= MaxParams}}

NoRequest == [op |-> "none", arg |-> <<>>]
NoResponse == [status |-> 0, body |-> None]

Init ==
    /\ store = EmptyBag
    /\ now = 0
    /\ request = NoRequest
    /\ parsed = NotParsed
    /\ applied = NotCalled
    /\ response = NoResponse

\* The handler's outcome becomes the state after the request.
Handle(op, arg, out) ==
    /\ request' = [op |-> op, arg |-> arg]
    /\ store' = out.db
    /\ parsed' = out.parsed
    /\ applied' = out.applied
    /\ response' = out.response

\* POST /strings
CreateString ==
    /\ now < MaxClock
    /\ \E value \in Values :
        /\ Handle("create", value, create_string(store, value, now))
        /\ now' = IF create_string(store, value, now).response.status = 201
                  THEN now + 1 ELSE now

\* GET /strings/{string_value}
GetString ==
    \E value \in Values :
        /\ Handle("get", value, get_string(store, value))
        /\ UNCHANGED now

\* GET /strings
GetAllStrings ==
    \E params \in StructuredQueries :
        /\ Handle("filter", params, get_all_strings(store, params))
        /\ UNCHANGED now

\* GET /strings/filter-by-natural-language
GetStringsByNaturalLanguage ==
    \E query \in ServiceSentences :
        /\ Handle("nl", query, get_strings_by_natural_language(store, query))
        /\ UNCHANGED now

\* DELETE /strings/{string_value}
DeleteString ==
    \E value \in Values :
        /\ Handle("delete", value, delete_string(store, value))
        /\ UNCHANGED now

Next ==
    \/ CreateString
    \/ GetString
    \/ GetAllStrings
    \/ GetStringsByNaturalLanguage
    \/ DeleteString

Spec == Init /\ [][Next]_vars

(***************************************************************************)
(* The parser alone: every sentence of Sentences is given to it once.      *)
(***************************************************************************)
InitInterp ==
    /\ store = EmptyBag
    /\ now = 0
    /\ request \in {[op |-> "nl", arg |-> s] : s \in Sentences}
    /\ parsed = NotParsed
    /\ applied = NotCalled
    /\ response = NoResponse

Interpret ==
    /\ parsed = NotParsed
    /\ parsed' = parse_natural_language_query(request.arg)
    /\ UNCHANGED <<store, now, request, applied, response>>

SpecInterp == InitInterp /\ [][Interpret]_vars

(***************************************************************************)
(* Properties.  The parser's are stated on SpecInterp, where request.arg   *)
(* is the sentence and parsed the parser's result; the others on Spec.     *)
(***************************************************************************)
\* The lower-cased, trimmed sentence the recognition rules read.
Normalized(sentence) == strip(lower(sentence))

\* The FilterSet fields of the recognition rules that fire on q: rule 1
\* (palindrome), rule 2 (<integer> word(s), or "single word"), rules 3 and 4
\* (longer/more than, at least), rules 5 and 6 (shorter/less than, at most),
\* rules 7 and 8 (contain(s|ing) <character>, "first vowel").
FiredFields(q) ==
    (IF Contains(q, <<"p", "a", "l", "i", "n", "d", "r", "o", "m", "e">>) \/ Contains(q, <<"p", "a", "l", "i", "n", "d", "r", "o", "m", "i", "c">>)
     THEN {"is_palindrome"} ELSE {})
    \cup
    (IF word_count_match(q) # NoMatch \/ Contains(q, <<"s", "i", "n", "g", "l", "e", " ", "w", "o", "r", "d">>)
     THEN {"word_count"} ELSE {})
    \cup
    (IF min_length_match(q) # NoMatch \/ min_length_at_least_match(q) # NoMatch
     THEN {"min_length"} ELSE {})
    \cup
    (IF max_length_match(q) # NoMatch \/ max_length_at_most_match(q) # NoMatch
     THEN {"max_length"} ELSE {})
    \cup
    (IF contains_match(q) # NoMatch \/ Contains(q, <<"f", "i", "r", "s", "t", " ", "v", "o", "w", "e", "l">>)
     THEN {"contains_character"} ELSE {})

\* C1: the parser returns None if and only if none of the eight recognition
\* rules fires on the lower-cased, trimmed sentence; when at least one fires
\* it returns a dict holding exactly the fields of the rules that fired,
\* whatever else the sentence says.
C1_NoneIffNoRuleFires ==
    parsed # NotParsed =>
        LET q == Normalized(request.arg)
        IN  /\ (parsed = None) <=> (FiredFields(q) = {})
            /\ parsed # None => DOMAIN parsed = FiredFields(q)

\* C1 witness: a sentence with the unrecognized word "hello" and one rule
\* that fired was parsed into a dict of exactly that one field.
C1_Witness ==
    /\ parsed # NotParsed
    /\ parsed # None
    /\ Contains(Normalized(request.arg), <<"h", "e", "l", "l", "o">>)
    /\ Cardinality(FiredFields(Normalized(request.arg))) = 1
    /\ DOMAIN parsed = FiredFields(Normalized(request.arg))

\* C5: "(longer|more) than N" sets min_length to N + 1 and "at least M" sets
\* it to M; when the sentence holds both, min_length is M whichever comes
\* first in the sentence.
C5_AtLeastOverridesLongerThan ==
    parsed # NotParsed =>
        LET q  == Normalized(request.arg)
            lm == min_length_match(q)
            am == min_length_at_least_match(q)
        IN  /\ am # NoMatch =>
                /\ parsed # None
                /\ "min_length" \in DOMAIN parsed
                /\ parsed["min_length"] = int(am.group)
            /\ (am = NoMatch /\ lm # NoMatch) =>
                /\ parsed # None
                /\ "min_length" \in DOMAIN parsed
                /\ parsed["min_length"] = int(lm.group) + 1

\* C5 witness: both phrases matched, "at least M" standing before
\* "longer than N", and min_length is M, which differs from N + 1.
C5_Witness ==
    /\ parsed # NotParsed
    /\ LET q  == Normalized(request.arg)
           lm == min_length_match(q)
           am == min_length_at_least_match(q)
       IN  /\ lm # NoMatch
           /\ am # NoMatch
           /\ am.start < lm.start
           /\ int(am.group) # int(lm.group) + 1
           /\ parsed["min_length"] = int(am.group)

\* C6: when the sentence holds "first vowel", contains_character is "a", also
\* when the contain(s|ing) pattern captured another character; without
\* "first vowel" it is the one character the pattern captured, and absent
\* when the pattern did not match.
C6_FirstVowelOverridesContains ==
    parsed # NotParsed =>
        LET q  == Normalized(request.arg)
            cm == contains_match(q)
        IN  /\ Contains(q, <<"f", "i", "r", "s", "t", " ", "v", "o", "w", "e", "l">>) =>
                /\ parsed # None
                /\ "contains_character" \in DOMAIN parsed
                /\ parsed["contains_character"] = <<"a">>
            /\ (~Contains(q, <<"f", "i", "r", "s", "t", " ", "v", "o", "w", "e", "l">>) /\ cm # NoMatch) =>
                /\ parsed # None
                /\ "contains_character" \in DOMAIN parsed
                /\ parsed["contains_character"] = cm.group
                /\ Len(cm.group) = 1
            /\ (~Contains(q, <<"f", "i", "r", "s", "t", " ", "v", "o", "w", "e", "l">>) /\ cm = NoMatch) =>
                (parsed = None \/ "contains_character" \notin DOMAIN parsed)

\* C6 witness: the pattern captured a character other than "a" in a sentence
\* that also holds "first vowel", and contains_character is "a".
C6_Witness ==
    /\ parsed # NotParsed
    /\ LET q  == Normalized(request.arg)
           cm == contains_match(q)
       IN  /\ Contains(q, <<"f", "i", "r", "s", "t", " ", "v", "o", "w", "e", "l">>)
           /\ cm # NoMatch
           /\ cm.group # <<"a">>
           /\ parsed["contains_character"] = <<"a">>

\* C2 (as stated): for any stored rows and any FilterSet f the parser
\* produces, GET /strings with parameters equal to f passes f to
\* get_filtered_strings as the natural-language request did and returns the
\* same result set.
C2_StructuredPathAgreesWithNaturalLanguage ==
    (request.op = "nl" /\ parsed # None) =>
        LET structured == get_all_strings(store, parsed)
        IN  /\ applied = parsed
            /\ structured.applied = applied
            /\ structured.response.status = 200
            /\ structured.response.body.data = response.body.data

\* A row satisfies every field that is present in the FilterSet f.
Satisfies(r, f) ==
    /\ "is_palindrome" \in DOMAIN f => r.is_palindrome = f["is_palindrome"]
    /\ "min_length" \in DOMAIN f => r.length >= f["min_length"]
    /\ "max_length" \in DOMAIN f => r.length <= f["max_length"]
    /\ "word_count" \in DOMAIN f => r.word_count = f["word_count"]
    /\ "contains_character" \in DOMAIN f =>
           \E c \in DOMAIN r.character_frequency_map : <<c>> = f["contains_character"]

\* C3: the rows a filter request returns are exactly the stored rows that
\* satisfy all fields present in the FilterSet it applied; a FilterSet with
\* no field returns every stored row.
C3_ExactlyTheRowsSatisfyingAllFields ==
    applied # NotCalled =>
        LET matching == {r \in BagToSet(store) : Satisfies(r, applied)}
        IN  /\ response.status = 200
            /\ response.body.data = response_data([r \in matching |-> store[r]])
            /\ response.body.count = Cardinality(matching)
            /\ DOMAIN applied = {} => response.body.data = response_data(store)

\* C3 witness: a FilterSet of two or more fields kept some stored rows and
\* left others out.
C3_Witness ==
    /\ applied # NotCalled
    /\ Cardinality(DOMAIN applied) >= 2
    /\ response.body.count >= 1
    /\ response.body.count < BagCardinality(store)

\* No two rows share a value or a sha256_hash.
UniqueRows(db) ==
    /\ \A r \in BagToSet(db) : db[r] = 1
    /\ \A r1, r2 \in BagToSet(db) :
           (r1.value = r2.value \/ r1.sha256_hash = r2.sha256_hash) => r1 = r2

\* C4: after every request no two stored rows have the same value or the
\* same sha256_hash, and a create whose value is already stored is answered
\* 409 Conflict and leaves the table as it was.
C4_UniqueValuesAndConflictLeavesStore ==
    [][/\ UniqueRows(store')
       /\ (request'.op = "create" /\ \E r \in BagToSet(store) : r.value = request'.arg) =>
              (response'.status = 409 /\ store' = store)]_vars

\* C4 witness: a create of a stored value was answered 409 while the table
\* held two rows or more.
C4_Witness ==
    /\ request.op = "create"
    /\ response.status = 409
    /\ \E r \in BagToSet(store) : r.value = request.arg
    /\ BagCardinality(store) >= 2

\* C7: when the parser returns None for a natural-language request, the
\* response is 400 "Unable to parse natural language query.",
\* get_filtered_strings is not called and no result set is returned.
C7_NotUnderstoodIsRejectedWithoutResult ==
    (request.op = "nl" /\ parsed = None) =>
        /\ response = HTTPException(400, "Unable to parse natural language query.")
        /\ applied = NotCalled
        /\ "data" \notin DOMAIN response.body

\* C7 witness: an unparseable sentence was rejected while rows were stored.
C7_Witness ==
    /\ request.op = "nl"
    /\ parsed = None
    /\ response.status = 400
    /\ BagCardinality(store) >= 2

\* C8: filtering the rows a filter request returned with the same FilterSet
\* returns those rows again.
C8_FilteringIsIdempotent ==
    applied # NotCalled =>
        LET once == get_filtered_strings(store, applied)
        IN  /\ get_filtered_strings(once, applied) = once
            /\ response_data(get_filtered_strings(once, applied)) = response.body.data

\* C8 witness: a FilterSet kept two rows or more and left one out.
C8_Witness ==
    /\ applied # NotCalled
    /\ response.body.count >= 2
    /\ response.body.count < BagCardinality(store)

\* C9: a stored row stays as it is until the delete of its value removes it:
\* every request other than that delete leaves it in the table with every
\* field unchanged, and its fields are what analyze_string gives for its
\* value.
C9_StoredRowsAreImmutable ==
    [][/\ \A r \in BagToSet(store) :
              \/ r \in BagToSet(store')
              \/ (request'.op = "delete" /\ request'.arg = r.value)
       /\ \A r \in BagToSet(store') :
              r = AnalyzedString(r.value, analyze_string(r.value), r.created_at)]_vars

\* C9 witness: the first row inserted is still stored, unchanged, after
\* another insert and a rejected create of its own value.
C9_Witness ==
    /\ request.op = "create"
    /\ response.status = 409
    /\ now >= 2
    /\ \E r \in BagToSet(store) :
           /\ r.value = request.arg
           /\ r.created_at = 0
           /\ r = AnalyzedString(r.value, analyze_string(r.value), 0)

\* C10 (as stated): the parsed_filters echoed in a natural-language response
\* holds exactly the fields and values of the FilterSet that was applied to
\* the table, max_length included.
C10_EchoedFiltersAreTheAppliedFilters ==
    (request.op = "nl" /\ response.status = 200) =>
        response.body.interpreted_query.parsed_filters = applied

\* C11 (as stated): every dict the parser returns is one GET /strings would
\* accept as its parameters: min_length, max_length and word_count, when
\* present, are integers >= 0, and contains_character, when present, is
\* exactly one character.
C11_ParsedFiltersPassStructuredValidation ==
    (parsed # NotParsed /\ parsed # None) =>
        /\ \A k \in (DOMAIN parsed) \cap {"min_length", "max_length", "word_count"} :
               parsed[k] >= 0
        /\ "contains_character" \in DOMAIN parsed => Len(parsed["contains_character"]) = 1
        /\ ValidQuery(parsed)
====
